---- MODULE Spec2Model ----
(***************************************************************************)
(* Keyword-alert pipeline of the Telegram parser: the three scripts        *)
(* main.py, main_comm_v2.py and bot.py, each modelled as the handler its   *)
(* event loop runs for every NewMessage event.  A handler is a task that   *)
(* runs from one await to the next in one step; tasks of different events  *)
(* interleave at their awaits, as asyncio schedules them.                  *)
(***************************************************************************)
EXTENDS Integers, Sequences, FiniteSets, TLC

\* ------------------------------------------------------------------ bounds
MaxEvents == 2          \* NewMessage events delivered in one run
MaxTasks == 2           \* handler tasks in flight at the same time
MaxTicks == 2           \* clock advances made by the environment
CountCap == 2           \* history counters saturate here
MaxFaults == 5          \* failed answers of the provider in one run
MaxStarts == 3          \* process starts against the same csv file
MaxRecords == 2         \* rows appended to the csv file
MaxLineLen == 3         \* characters of a line of a keywords file
MaxTextLen == 3         \* characters of a message text

\* ------------------------------------------------------- program constants
PROCESSED_TTL == 24 * 60 * 60
MESSAGE_EXPIRY_TIME == 24 * 60 * 60
MAX_RETRIES == 5
RETRY_DELAY == 10

\* The clock advances by one second or by the TTL, so that the ages 1, TTL and
\* TTL + 1 are all reached.
TimeSteps == {1, PROCESSED_TTL}
\* retry_after values a FloodWaitError may carry
FloodSeconds == {5}

None == <<"None">>
NoTime == -1

\* ------------------------------------------------------------ configuration
\* keyword_groups of the scripts, with two groups so that the loops over the
\* groups have a second element.  csv_file is whether the group names a sink.
keyword_groups ==
    << [name |-> "g1", target_chat_id |-> 201, csv_file |-> TRUE],
       [name |-> "g2", target_chat_id |-> 202, csv_file |-> TRUE] >>

GroupIds == 1..Len(keyword_groups)

\* GroupData.keywords of main.py: the dict {keyword_lower: alias} in insertion order
kw_map ==
    << << [kw |-> <<"a">>, alias |-> <<"A", "1">>] >>,
       << [kw |-> <<"b">>, alias |-> <<"B", "2">>] >> >>

\* keyword_data of bot.py and main_comm_v2.py: keywords and excluded words
keyword_data ==
    << [keywords |-> << <<"a">> >>, excluded_words |-> << <<"x">> >>],
       [keywords |-> << <<"b">> >>, excluded_words |-> << >>] >>

\* ------------------------------------------------------------------- inputs
\* The messages the transport may deliver (and deliver again).  chat_kind is
\* the type of the chat entity, sender the type of message.sender.
Messages ==
    { [chat_id |-> 101, id |-> 1, text |-> <<"A", " ", "b">>, out |-> FALSE,
       chat_kind |-> "channel", username |-> TRUE, sender |-> "user"],
      [chat_id |-> 102, id |-> 1, text |-> <<"b">>, out |-> FALSE,
       chat_kind |-> "group", username |-> FALSE, sender |-> "chat"],
      [chat_id |-> 201, id |-> 1, text |-> <<"a", " ", "b">>, out |-> FALSE,
       chat_kind |-> "channel", username |-> TRUE, sender |-> "chat"],
      [chat_id |-> 201, id |-> 2, text |-> <<"a">>, out |-> TRUE,
       chat_kind |-> "channel", username |-> FALSE, sender |-> "user"] }

NoMsg == [chat_id |-> 0, id |-> 0, text |-> << >>, out |-> FALSE,
          chat_kind |-> "none", username |-> FALSE, sender |-> "none"]

\* MessageKey: (chat_id, message_id)
KeyOf(m) == <<m.chat_id, m.id>>
Keys == {KeyOf(m) : m \in Messages}

TaskIds == 1..MaxTasks

\* -------------------------------------------------------------------- state
VARIABLES
    program,             \* which script runs: "main", "v2" or "bot"
    now,                 \* time.time()
    ticks,               \* clock advances so far
    nevents,             \* events delivered so far
    faults,              \* failed provider calls so far
    tasks,               \* the handler tasks, by slot
    dup_cache,           \* main.py: DupCache._cache, key -> first-seen time
    processed_messages,  \* main_comm_v2.py: processed_messages
    csv_rows,            \* main.py: rows appended to the group's csv file
    log,                 \* what the handlers logged or printed
    evals,               \* history: keyword scans per (message, group)
    sends,               \* history: send_message calls per (message, group)
    observed,            \* history: the last duplicate-guard decision
    lastNew,             \* history: when each key was last reported new
    rateLimited,         \* history: the notifications a FloodWaitError ended
    call,                \* a function of the scripts called on its own: its arguments
    result,              \* what that call returned
    sink                 \* main.py: the csv file of a group and the writer on it

\* The state of the handlers and of their histories
pipeline == <<program, now, ticks, nevents, faults, tasks, dup_cache, processed_messages,
              csv_rows, log, evals, sends, observed, lastNew, rateLimited>>

vars == <<call, result, sink, program, now, ticks, nevents, faults, tasks, dup_cache, processed_messages,
          csv_rows, log, evals, sends, observed, lastNew, rateLimited>>

\* ------------------------------------------------------------ text helpers
Min(S) == CHOOSE x \in S : \A y \in S : x <= y

UpperCase == <<"A", "B", "C", "D", "E", "F", "G", "H", "I", "J", "K", "L", "M",
               "N", "O", "P", "Q", "R", "S", "T", "U", "V", "W", "X", "Y", "Z">>

LowerCase == <<"a", "b", "c", "d", "e", "f", "g", "h", "i", "j", "k", "l", "m",
               "n", "o", "p", "q", "r", "s", "t", "u", "v", "w", "x", "y", "z">>

\* The lower-case letter of each upper-case letter
LowerOf ==
    [c \in {UpperCase[i] : i \in 1..Len(UpperCase)} |->
        LowerCase[CHOOSE i \in 1..Len(UpperCase) : UpperCase[i] = c]]

\* str.lower() of one character
LowerChar(c) == IF c \in DOMAIN LowerOf THEN LowerOf[c] ELSE c

\* str.lower()
Lower(s) == [i \in 1..Len(s) |-> LowerChar(s[i])]

\* `sub in s` of two strings
Contains(sub, s) ==
    \E i \in 0..(Len(s) - Len(sub)) : SubSeq(s, i + 1, i + Len(sub)) = sub

FindKeywordCaseSensitive(text, kwm) ==
    LET hits == {i \in 1..Len(kwm) : Contains(kwm[i].kw, text)}
    IN  IF hits = {} THEN None ELSE kwm[Min(hits)].alias

\* The loop of find_keyword over kw_map.items(), from the i-th item on
RECURSIVE FindFrom(_, _, _)
FindFrom(text_lc, kwm, i) ==
    IF i > Len(kwm) THEN None
    ELSE IF Contains(kwm[i].kw, text_lc) THEN kwm[i].alias
         ELSE FindFrom(text_lc, kwm, i + 1)

\* find_keyword: the alias of the first key of the table found in the
\* lower-cased text, None if there is none
find_keyword(text, kwm) == FindFrom(Lower(text), kwm, 1)

\* Python truth value of find_keyword's result
Truthy(alias) == alias # None /\ alias # << >>

\* --------------------------------------------------------------- histories
Inc(c) == IF c < CountCap THEN c + 1 ELSE c

Pairs == Keys \X GroupIds

NoNote == [kw |-> None, key |-> <<0, 0>>, link |-> "unset"]

\* A handler task: where it is (pc), its event's message, the group its loop
\* is at, bot.py's retries and notification, the sleep it asked for (secs) and
\* what is left of it (wake), and the send_message calls it made for the
\* notification at hand (attempts)
IdleTask == [pc |-> "idle", msg |-> NoMsg, gi |-> 0, retries |-> 0,
             notification |-> NoNote, wake |-> 0, secs |-> 0, attempts |-> 0]

Programs == {"main", "v2", "bot"}

\* No function is called on its own, and no sink is under study
NoCall == [fn |-> "none"]
NoResult == [done |-> FALSE]
NoSink == [file |-> << >>, buffer |-> << >>, open |-> FALSE, records |-> << >>,
           starts |-> 0]

\* The handlers before the first event
PipelineInit ==
    /\ program \in Programs
    /\ now = 0
    /\ ticks = 0
    /\ nevents = 0
    /\ faults = 0
    /\ tasks = [t \in TaskIds |-> IdleTask]
    /\ dup_cache = [k \in Keys |-> NoTime]
    /\ processed_messages = [k \in Keys |-> NoTime]
    /\ csv_rows = << >>
    /\ log = {}
    /\ evals = [p \in Pairs |-> 0]
    /\ sends = [p \in Pairs |-> [tries |-> 0, ok |-> 0]]
    /\ observed = [key |-> <<0, 0>>, result |-> "none", at |-> NoTime,
                   stored |-> NoTime, prev |-> NoTime]
    /\ rateLimited = {}
    /\ lastNew = [k \in Keys |-> NoTime]

Init ==
    /\ PipelineInit
    /\ call = NoCall
    /\ result = NoResult
    /\ sink = NoSink

\* The decision of the duplicate guard on `key` at time `t`, for the histories;
\* `stored` is the timestamp the guard held for the key when it was called
Observe(key, isNew, t, stored) ==
    /\ observed' = [key |-> key, result |-> IF isNew THEN "new" ELSE "dup",
                    at |-> t, stored |-> stored, prev |-> lastNew[key]]
    /\ lastNew' = IF isNew THEN [lastNew EXCEPT ![key] = t] ELSE lastNew

\* ------------------------------------------------------------- environment
\* The provider answers a call with `outcome`; the failures are counted.
Answer(outcome) ==
    /\ outcome # "ok" => faults < MaxFaults
    /\ faults' = IF outcome = "ok" THEN faults ELSE faults + 1

\* The clock moves on.  bot.py reads no clock: its sleeps end by SleepElapses.
Tick(d) ==
    /\ program # "bot"
    /\ ticks < MaxTicks
    /\ now' = now + d
    /\ ticks' = ticks + 1
    /\ UNCHANGED <<call, result, sink, program, nevents, faults, tasks, dup_cache, processed_messages,
                   csv_rows, log, evals, sends, observed, lastNew, rateLimited>>

\* events.NewMessage: the transport hands message m to a new handler task
\* (the first free slot).
\* main.py's handler awaits event.get_chat() before anything else.
Deliver(t, m) ==
    /\ nevents < MaxEvents
    /\ tasks[t].pc = "idle"
    /\ \A u \in TaskIds : u < t => tasks[u].pc # "idle"
    /\ tasks' = [tasks EXCEPT ![t] =
                    [IdleTask EXCEPT !.pc = IF program = "main" THEN "get_chat" ELSE "start",
                                     !.msg = m]]
    /\ nevents' = nevents + 1
    /\ UNCHANGED <<call, result, sink, program, now, ticks, faults, dup_cache, processed_messages,
                   csv_rows, log, evals, sends, observed, lastNew, rateLimited>>

\* ------------------------------------------------------------------ main.py
DupCachePurgeInverted(cache, t) ==
    [k \in Keys |-> IF cache[k] # NoTime /\ t - cache[k] > PROCESSED_TTL
                    THEN cache[k] ELSE NoTime]

\* The dict comprehension of DupCache.add: the entries younger than ttl

DupCachePurge(cache, t) ==
    [k \in Keys |-> IF cache[k] # NoTime /\ t - cache[k] < PROCESSED_TTL
                    THEN cache[k] ELSE NoTime]

DupCacheAddLate(cache, key, t) ==
    LET purged == DupCachePurge(cache, t)
    IN  [new |-> purged[key] = NoTime, cache |-> purged]

\* DupCache.add: the returned bool and the cache it leaves
DupCacheAdd(cache, key, t) ==
    LET purged == DupCachePurge(cache, t)
    IN  IF purged[key] # NoTime
        THEN [new |-> FALSE, cache |-> purged]
        ELSE [new |-> TRUE, cache |-> [purged EXCEPT ![key] = t]]

\* next((x for x in groups if x.target_chat_id and chat.id), None): the index
\* of the first group with a non-zero target when chat.id is non-zero, else 0
MainGroup(msg) ==
    LET ok == {i \in GroupIds : keyword_groups[i].target_chat_id # 0 /\ msg.chat_id # 0}
    IN  IF ok = {} THEN 0 ELSE Min(ok)

\* getattr(msg.to_id, "channel_id", None): a message in a channel is addressed
\* to PeerChannel(chat.id); the peers of groups and users have no channel_id
ToChannelId(msg) == IF msg.chat_kind = "channel" THEN msg.chat_id ELSE 0

\* msg.out and msg.to_id and getattr(msg.to_id, "channel_id", None) == g.target_chat_id
MainSelfLoop(msg, g) ==
    msg.out /\ ToChannelId(msg) = keyword_groups[g].target_chat_id

\* tg_link: which of its three results the chat gets
tg_link(msg) ==
    IF msg.username THEN "public"
    ELSE IF msg.chat_kind = "channel" THEN "private" ELSE "dash"

CsvWriteOnce(rows, g, key) ==
    IF keyword_groups[g].csv_file /\ ~\E i \in 1..Len(rows) : rows[i] = <<g, key>>
    THEN Append(rows, <<g, key>>) ELSE rows

\* The csv row of lines 208-217, appended when the group has a csv_writer
CsvWrite(rows, g, key) ==
    IF keyword_groups[g].csv_file THEN Append(rows, <<g, key>>) ELSE rows

\* on_new_message from the return of event.get_chat() to the await of
\* send_message, or to the end of the handler
MainOnNewMessage(t) ==
    /\ program = "main"
    /\ tasks[t].pc = "get_chat"
    /\ LET msg == tasks[t].msg
           key == KeyOf(msg)
           g == MainGroup(msg)
           r == DupCacheAdd(dup_cache, key, now)
           scanned == g # 0 /\ r.new /\ ~MainSelfLoop(msg, g)
           kw_alias == IF scanned THEN find_keyword(msg.text, kw_map[g]) ELSE None
       IN  /\ IF g = 0
              THEN UNCHANGED <<dup_cache, observed, lastNew>>
              ELSE dup_cache' = r.cache /\ Observe(key, r.new, now, dup_cache[key])
           /\ evals' = IF scanned THEN [evals EXCEPT ![<<key, g>>] = Inc(@)] ELSE evals
           /\ IF scanned /\ Truthy(kw_alias)
              THEN /\ tasks' = [tasks EXCEPT ![t].pc = "send", ![t].gi = g,
                                   ![t].notification =
                                       [kw |-> kw_alias, key |-> key, link |-> tg_link(msg)]]
                   /\ UNCHANGED csv_rows
              ELSE /\ tasks' = [tasks EXCEPT ![t] = IdleTask]
                   /\ csv_rows' = IF scanned THEN CsvWrite(csv_rows, g, key) ELSE csv_rows
    /\ UNCHANGED <<call, result, sink, program, now, ticks, nevents, faults, processed_messages, log, sends,
                   rateLimited>>

\* What bot_client.send_message may answer
SendOutcomes == {"ok", "forbidden", "flood", "server_error", "error"}

Sent(key, g, outcome) ==
    [sends EXCEPT ![<<key, g>>] =
        [tries |-> Inc(@.tries), ok |-> IF outcome = "ok" THEN Inc(@.ok) ELSE @.ok]]

\* A notification that a FloodWaitError(seconds) has ended, as the handler
\* leaves it: the time it slept and the send_message calls it made for it
Limited(key, g, seconds, slept, calls) ==
    rateLimited \cup {[key |-> key, g |-> g, d |-> seconds, slept |-> slept, sends |-> calls]}

\* on_new_message from the answer of send_message to the end: the try/except
\* of lines 194-205 (a FloodWaitError is one more Exception), then the csv row
MainSendDone(t, outcome, seconds) ==
    /\ program = "main"
    /\ tasks[t].pc = "send"
    /\ Answer(outcome)
    /\ LET key == KeyOf(tasks[t].msg)
           g == tasks[t].gi
       IN  /\ sends' = Sent(key, g, outcome)
           /\ log' = IF outcome = "ok" THEN log
                     ELSE log \cup {<<key, g, IF outcome = "forbidden"
                                              THEN "forbidden" ELSE "exception">>}
           /\ rateLimited' = IF outcome = "flood"
                             THEN Limited(key, g, seconds, 0, tasks[t].attempts + 1)
                             ELSE rateLimited
           /\ csv_rows' = CsvWrite(csv_rows, g, key)
    /\ tasks' = [tasks EXCEPT ![t] = IdleTask]
    /\ UNCHANGED <<call, result, sink, program, now, ticks, nevents, dup_cache, processed_messages,
                   evals, observed, lastNew>>

\* ------------------------------------------- bot.py and main_comm_v2.py: match
\* \w of the regular expression
Digits == <<"0", "1", "2", "3", "4", "5", "6", "7", "8", "9">>

WordChars ==
    {UpperCase[i] : i \in 1..Len(UpperCase)} \cup {LowerCase[i] : i \in 1..Len(LowerCase)}
    \cup {Digits[i] : i \in 1..Len(Digits)} \cup {"_"}

IsWord(c) == c \in WordChars

\* \b at position p of s (between s[p] and s[p+1])
Boundary(s, p) ==
    (p > 0 /\ IsWord(s[p])) # (p < Len(s) /\ IsWord(s[p + 1]))

\* re.search(fr'(?i)\b{re.escape(keyword)}\b', text)
ReSearchWord(keyword, text) ==
    \E i \in 0..(Len(text) - Len(keyword)) :
        /\ Lower(SubSeq(text, i + 1, i + Len(keyword))) = Lower(keyword)
        /\ Boundary(text, i)
        /\ Boundary(text, i + Len(keyword))

AnyExcludedCaseSensitive(text, excluded_words) ==
    \E j \in 1..Len(excluded_words) : Contains(excluded_words[j], text)

\* any(excluded_word in message.text.lower() for excluded_word in excluded_words)
AnyExcluded(text, excluded_words) ==
    \E j \in 1..Len(excluded_words) : Contains(excluded_words[j], Lower(text))

\* The `for keyword in keywords` loop over the keywords and the excluded
\* words of a group: the index of the keyword it breaks on, 0 when it runs to
\* its end
KeywordLoop(text, keywords, excluded_words) ==
    LET hits == {i \in 1..Len(keywords) :
                    ReSearchWord(keywords[i], text)
                    /\ ~AnyExcluded(text, excluded_words)}
    IN  IF hits = {} THEN 0 ELSE Min(hits)

\* The keyword loop of group g
GroupHit(text, g) ==
    KeywordLoop(text, keyword_data[g].keywords, keyword_data[g].excluded_words)

\* The `for group in keyword_groups` loop resumed at group `from`: the group
\* whose keyword loop reaches an await (0: none), and the groups whose
\* keywords are scanned on the way.  skipped: the groups passed over.
NextHit(msg, from, skipped) ==
    LET hits == {g \in GroupIds \ skipped : g >= from /\ GroupHit(msg.text, g) # 0}
    IN  IF hits = {} THEN 0 ELSE Min(hits)

Scanned(msg, from, skipped) ==
    LET hit == NextHit(msg, from, skipped)
    IN  {g \in GroupIds \ skipped : g >= from /\ (hit = 0 \/ g <= hit)}

Evaluated(key, groups) ==
    [p \in Pairs |-> IF p[1] = key /\ p[2] \in groups THEN Inc(evals[p]) ELSE evals[p]]

\* ------------------------------------------------------- main_comm_v2.py
\* clean_old_messages
clean_old_messages(pm, t) ==
    [k \in Keys |-> IF pm[k] # NoTime /\ t - pm[k] > MESSAGE_EXPIRY_TIME
                    THEN NoTime ELSE pm[k]]

\* lines 84-86: the message comes from the target chat of some group
V2FromTarget(msg) ==
    \E g \in GroupIds : msg.chat_id = keyword_groups[g].target_chat_id

\* the group loop of lines 103-107 passes over no group
V2Skipped == {}

\* The group loop of lines 103-159 resumed at group `from`, up to its next await
V2Resume(t, from) ==
    LET msg == tasks[t].msg
        hit == NextHit(msg, from, V2Skipped)
    IN  /\ evals' = Evaluated(KeyOf(msg), Scanned(msg, from, V2Skipped))
        /\ tasks' = IF hit = 0
                    THEN [tasks EXCEPT ![t] = IdleTask]
                    ELSE [tasks EXCEPT ![t].pc = "get_entity", ![t].gi = hit,
                                       ![t].notification = NoNote, ![t].attempts = 0]

\* handle_new_message from its start to its first await (lines 81-129/141)
V2HandleNewMessage(t) ==
    /\ program = "v2"
    /\ tasks[t].pc = "start"
    /\ LET msg == tasks[t].msg
           key == KeyOf(msg)
       IN  IF V2FromTarget(msg)
           THEN /\ tasks' = [tasks EXCEPT ![t] = IdleTask]
                /\ UNCHANGED <<processed_messages, observed, lastNew, evals>>
           ELSE IF processed_messages[key] # NoTime
           THEN /\ tasks' = [tasks EXCEPT ![t] = IdleTask]
                /\ Observe(key, FALSE, now, processed_messages[key])
                /\ UNCHANGED <<processed_messages, evals>>
           ELSE /\ processed_messages' =
                       clean_old_messages([processed_messages EXCEPT ![key] = now], now)
                /\ Observe(key, TRUE, now, processed_messages[key])
                /\ V2Resume(t, 1)
    /\ UNCHANGED <<call, result, sink, program, now, ticks, nevents, faults, dup_cache, csv_rows, log, sends,
                   rateLimited>>

\* What client.get_entity may answer
EntityOutcomes == {"ok", "server_error", "error"}

\* The notification of lines 117-151 once get_entity has answered
V2Notification(msg, g, outcome) ==
    LET kws == keyword_data[g].keywords
        note == [kw |-> kws[GroupHit(msg.text, g)], key |-> KeyOf(msg),
                 link |-> IF msg.username THEN "public" ELSE "private"]
    IN  IF msg.sender = "user" THEN note
        ELSE IF outcome = "ok" /\ msg.chat_kind \in {"channel", "group"} THEN note
        ELSE NoNote

\* From the answer of get_entity to the await of send_message, or on through
\* the group loop when there is nothing to send
V2GotEntity(t, outcome) ==
    /\ program = "v2"
    /\ tasks[t].pc = "get_entity"
    /\ Answer(outcome)
    /\ LET msg == tasks[t].msg
           g == tasks[t].gi
           note == V2Notification(msg, g, outcome)
       IN  IF msg.sender = "user" /\ outcome # "ok"
           THEN \* the exception leaves the handler
                /\ tasks' = [tasks EXCEPT ![t] = IdleTask]
                /\ log' = log \cup {<<KeyOf(msg), g, "raised">>}
                /\ UNCHANGED evals
           ELSE IF note # NoNote
           THEN /\ tasks' = [tasks EXCEPT ![t].pc = "send", ![t].notification = note]
                /\ log' = IF outcome = "ok" THEN log
                          ELSE log \cup {<<KeyOf(msg), g, "entity_error">>}
                /\ UNCHANGED evals
           ELSE /\ log' = IF outcome = "ok" THEN log
                          ELSE log \cup {<<KeyOf(msg), g, "entity_error">>}
                /\ V2Resume(t, g + 1)
    /\ UNCHANGED <<call, result, sink, program, now, ticks, nevents, dup_cache, processed_messages,
                   csv_rows, sends, observed, lastNew, rateLimited>>

\* From the answer of send_message on: only FloodWaitError is caught, and
\* printed (lines 155-159)
V2SendDone(t, outcome, seconds) ==
    /\ program = "v2"
    /\ tasks[t].pc = "send"
    /\ Answer(outcome)
    /\ LET key == KeyOf(tasks[t].msg)
           g == tasks[t].gi
       IN  /\ sends' = Sent(key, g, outcome)
           /\ IF outcome = "ok"
              THEN UNCHANGED <<log, rateLimited>> /\ V2Resume(t, g + 1)
              ELSE IF outcome = "flood"
              THEN /\ log' = log \cup {<<key, g, "flood">>}
                   /\ rateLimited' = Limited(key, g, seconds, 0, tasks[t].attempts + 1)
                   /\ V2Resume(t, g + 1)
              ELSE /\ log' = log \cup {<<key, g, "raised">>}
                   /\ tasks' = [tasks EXCEPT ![t] = IdleTask]
                   /\ UNCHANGED <<evals, rateLimited>>
    /\ UNCHANGED <<call, result, sink, program, now, ticks, nevents, dup_cache, processed_messages,
                   csv_rows, observed, lastNew>>

\* ------------------------------------------------------------------ bot.py
LoopHeldBySleeper ==
    \A t \in TaskIds : tasks[t].pc \in {"flood_sleep", "retry_sleep"} => tasks[t].wake = 0

\* await asyncio.sleep(...) suspends the handler that calls it and gives the
\* event loop back: the loop is free to run any other handler
LoopFree == TRUE

\* lines 105-107: the groups passed over for a message from their target chat
BotSkipped(msg) == {g \in GroupIds : msg.chat_id = keyword_groups[g].target_chat_id}

\* The group loop of lines 99-143 resumed at group `from`, up to its next
\* await; when it runs to its end the retry loop is left (line 145) and the
\* handler ends
BotResume(t, from, retries) ==
    LET msg == tasks[t].msg
        hit == NextHit(msg, from, BotSkipped(msg))
    IN  /\ evals' = Evaluated(KeyOf(msg), Scanned(msg, from, BotSkipped(msg)))
        /\ tasks' = IF hit = 0
                    THEN [tasks EXCEPT ![t] = IdleTask]
                    ELSE [tasks EXCEPT ![t].pc = "get_user", ![t].gi = hit,
                                       ![t].retries = retries, ![t].secs = 0,
                                       ![t].attempts = 0]

\* handle_new_message from its start to its first await (lines 81-118)
BotHandleNewMessage(t) ==
    /\ program = "bot"
    /\ LoopFree
    /\ tasks[t].pc = "start"
    /\ LET msg == tasks[t].msg
       IN  IF msg.sender = "bot" \/ msg.text = << >>
           THEN tasks' = [tasks EXCEPT ![t] = IdleTask] /\ UNCHANGED evals
           ELSE BotResume(t, 1, 0)
    /\ UNCHANGED <<call, result, sink, program, now, ticks, nevents, faults, dup_cache, processed_messages,
                   csv_rows, log, sends, observed, lastNew, rateLimited>>

BotServerErrorGrowingDelay(t) ==
    /\ tasks' = [tasks EXCEPT ![t].pc = "retry_sleep",
                              ![t].attempts = 0,
                              ![t].retries = tasks[t].retries + 1,
                              ![t].wake = RETRY_DELAY * (tasks[t].retries + 1),
                              ![t].secs = RETRY_DELAY * (tasks[t].retries + 1)]
    /\ UNCHANGED log

\* except ServerError with 'No workers running' (lines 146-151): count the
\* retry and sleep RETRY_DELAY
BotServerError(t) ==
    /\ tasks' = [tasks EXCEPT ![t].pc = "retry_sleep",
                              ![t].attempts = 0,
                              ![t].retries = tasks[t].retries + 1,
                              ![t].wake = RETRY_DELAY,
                              ![t].secs = RETRY_DELAY]
    /\ UNCHANGED log

\* except Exception (lines 155-157): log and re-raise, the handler ends
BotRaise(t) ==
    /\ tasks' = [tasks EXCEPT ![t] = IdleTask]
    /\ log' = log \cup {<<KeyOf(tasks[t].msg), tasks[t].gi, "raised">>}

\* From the answer of get_entity(user_id) on (lines 118-126)
BotGotUser(t, outcome) ==
    /\ program = "bot"
    /\ LoopFree
    /\ tasks[t].pc = "get_user"
    /\ Answer(outcome)
    /\ LET msg == tasks[t].msg
           g == tasks[t].gi
           keyword == keyword_data[g].keywords[GroupHit(msg.text, g)]
       IN  IF outcome = "server_error" THEN BotServerError(t)
           ELSE IF outcome = "error" THEN BotRaise(t)
           ELSE IF msg.sender = "user"
           THEN /\ tasks' = [tasks EXCEPT ![t].pc = "send",
                                ![t].notification =
                                    [kw |-> keyword, key |-> KeyOf(msg), link |-> "user"]]
                /\ UNCHANGED log
           ELSE \* raise ValueError(): fall back on the chat
                /\ tasks' = [tasks EXCEPT ![t].pc = "get_chat_entity"]
                /\ UNCHANGED log
    /\ UNCHANGED <<call, result, sink, program, now, ticks, nevents, dup_cache, processed_messages,
                   csv_rows, evals, sends, observed, lastNew, rateLimited>>

\* From the answer of get_entity(chat_id) to the await of send_message
\* (lines 128-137); `notification` keeps its old value when the chat has no
\* username, and the send of a name never bound raises
BotGotChat(t, outcome) ==
    /\ program = "bot"
    /\ LoopFree
    /\ tasks[t].pc = "get_chat_entity"
    /\ Answer(outcome)
    /\ LET msg == tasks[t].msg
           g == tasks[t].gi
           keyword == keyword_data[g].keywords[GroupHit(msg.text, g)]
           note == IF msg.chat_kind \in {"channel", "group"} /\ msg.username
                   THEN [kw |-> keyword, key |-> KeyOf(msg), link |-> "public"]
                   ELSE tasks[t].notification
       IN  IF outcome = "server_error" THEN BotServerError(t)
           ELSE IF outcome = "error" \/ note = NoNote THEN BotRaise(t)
           ELSE /\ tasks' = [tasks EXCEPT ![t].pc = "send", ![t].notification = note]
                /\ UNCHANGED log
    /\ UNCHANGED <<call, result, sink, program, now, ticks, nevents, dup_cache, processed_messages,
                   csv_rows, evals, sends, observed, lastNew, rateLimited>>

\* From the answer of send_message on (lines 136-157)
BotSendDone(t, outcome, seconds) ==
    /\ program = "bot"
    /\ LoopFree
    /\ tasks[t].pc = "send"
    /\ Answer(outcome)
    /\ LET key == KeyOf(tasks[t].msg)
           g == tasks[t].gi
           called == [tasks EXCEPT ![t].attempts = Inc(@)]
       IN  /\ sends' = Sent(key, g, outcome)
           /\ IF outcome = "ok"
              THEN /\ UNCHANGED log
                   /\ BotResume(t, g + 1, tasks[t].retries)
              ELSE IF outcome = "flood"
              THEN /\ log' = log \cup {<<key, g, "flood">>}
                   /\ tasks' = [called EXCEPT ![t].pc = "flood_sleep",
                                              ![t].wake = seconds,
                                              ![t].secs = seconds]
                   /\ UNCHANGED evals
              ELSE IF outcome = "server_error"
              THEN BotServerError(t) /\ UNCHANGED evals
              ELSE BotRaise(t) /\ UNCHANGED evals
    /\ UNCHANGED <<call, result, sink, program, now, ticks, nevents, dup_cache, processed_messages,
                   csv_rows, observed, lastNew, rateLimited>>

BotAfterFloodResend(t) ==
    /\ tasks' = [tasks EXCEPT ![t].pc = "send"]
    /\ UNCHANGED <<evals, rateLimited>>

\* After the sleep of line 142: `break` leaves the keyword loop and the group
\* loop goes on with the next group
BotAfterFlood(t) ==
    /\ rateLimited' = Limited(KeyOf(tasks[t].msg), tasks[t].gi, tasks[t].secs,
                              tasks[t].secs - tasks[t].wake, tasks[t].attempts)
    /\ BotResume(t, tasks[t].gi + 1, tasks[t].retries)

\* asyncio.sleep returns: after a FloodWaitError see BotAfterFlood; after a
\* server error the retry loop starts the group loop again, or gives up at
\* MAX_RETRIES (lines 97, 159)
BotWake(t) ==
    /\ program = "bot"
    /\ tasks[t].pc \in {"flood_sleep", "retry_sleep"}
    /\ tasks[t].wake = 0
    /\ IF tasks[t].pc = "flood_sleep"
       THEN /\ BotAfterFlood(t)
            /\ UNCHANGED log
       ELSE IF tasks[t].retries < MAX_RETRIES
       THEN /\ BotResume(t, 1, tasks[t].retries)
            /\ UNCHANGED <<log, rateLimited>>
       ELSE /\ tasks' = [tasks EXCEPT ![t] = IdleTask]
            /\ log' = log \cup {<<KeyOf(tasks[t].msg), tasks[t].gi, "max_retries">>}
            /\ UNCHANGED <<evals, rateLimited>>
    /\ UNCHANGED <<call, result, sink, program, now, ticks, nevents, faults, dup_cache, processed_messages,
                   csv_rows, sends, observed, lastNew>>

\* Time passes until the earliest sleeper is due.  bot.py reads no clock, so
\* only the time each sleeper still has to wait is kept (in `wake`).
SleepElapses ==
    LET sleepers == {t \in TaskIds : tasks[t].pc \in {"flood_sleep", "retry_sleep"}}
        d == Min({tasks[t].wake : t \in sleepers})
    IN  /\ program = "bot"
        /\ sleepers # {}
        /\ d > 0
        /\ tasks' = [t \in TaskIds |->
                        IF t \in sleepers THEN [tasks[t] EXCEPT !.wake = @ - d] ELSE tasks[t]]
        /\ UNCHANGED <<call, result, sink, program, now, ticks, nevents, faults, dup_cache, processed_messages,
                       csv_rows, log, evals, sends, observed, lastNew, rateLimited>>

\* ------------------------------------------------------------ specification
Environment ==
    \/ \E d \in TimeSteps : Tick(d)
    \/ \E t \in TaskIds, m \in Messages : Deliver(t, m)

NextMain ==
    \/ Environment
    \/ \E t \in TaskIds : MainOnNewMessage(t)
    \/ \E t \in TaskIds, o \in SendOutcomes, s \in FloodSeconds : MainSendDone(t, o, s)

NextV2 ==
    \/ Environment
    \/ \E t \in TaskIds : V2HandleNewMessage(t)
    \/ \E t \in TaskIds, o \in EntityOutcomes : V2GotEntity(t, o)
    \/ \E t \in TaskIds, o \in SendOutcomes, s \in FloodSeconds : V2SendDone(t, o, s)

NextBot ==
    \/ \E t \in TaskIds, m \in Messages : Deliver(t, m)
    \/ \E t \in TaskIds : BotHandleNewMessage(t)
    \/ \E t \in TaskIds, o \in EntityOutcomes : BotGotUser(t, o)
    \/ \E t \in TaskIds, o \in EntityOutcomes : BotGotChat(t, o)
    \/ \E t \in TaskIds, o \in SendOutcomes, s \in FloodSeconds : BotSendDone(t, o, s)
    \/ \E t \in TaskIds : BotWake(t)
    \/ SleepElapses

Next == NextMain \/ NextV2 \/ NextBot

\* Any of the three scripts
Spec == Init /\ [][Next]_vars

\* main.py
InitMain == Init /\ program = "main"

SpecMain == InitMain /\ [][NextMain]_vars

\* main_comm_v2.py
InitV2 == Init /\ program = "v2"

SpecV2 == InitV2 /\ [][NextV2]_vars

\* bot.py
InitBot == Init /\ program = "bot"

SpecBot == InitBot /\ [][NextBot]_vars

\* The two scripts that have a duplicate guard
InitGuard == Init /\ program \in {"main", "v2"}

SpecGuard == InitGuard /\ [][NextMain \/ NextV2]_vars

\* The runs without a provider outage: the clock stands still and bot.py is
\* never answered ServerError, so that its retry loop makes one pass.  Every
\* other answer is there, a FloodWaitError among them.
NoOutage == {"server_error"}

NextNoOutage ==
    \/ \E t \in TaskIds, m \in Messages : Deliver(t, m)
    \/ \E t \in TaskIds : MainOnNewMessage(t)
    \/ \E t \in TaskIds, o \in SendOutcomes, s \in FloodSeconds : MainSendDone(t, o, s)
    \/ \E t \in TaskIds : V2HandleNewMessage(t)
    \/ \E t \in TaskIds, o \in EntityOutcomes : V2GotEntity(t, o)
    \/ \E t \in TaskIds, o \in SendOutcomes, s \in FloodSeconds : V2SendDone(t, o, s)
    \/ \E t \in TaskIds : BotHandleNewMessage(t)
    \/ \E t \in TaskIds, o \in EntityOutcomes \ NoOutage : BotGotUser(t, o)
    \/ \E t \in TaskIds, o \in EntityOutcomes \ NoOutage : BotGotChat(t, o)
    \/ \E t \in TaskIds, o \in SendOutcomes \ NoOutage, s \in FloodSeconds :
           BotSendDone(t, o, s)
    \/ \E t \in TaskIds : BotWake(t)
    \/ SleepElapses

SpecNoOutage == Init /\ [][NextNoOutage]_vars

\* bot.py when the provider answers every call either with success or with
\* the ServerError 'No workers running'
Transient == {"ok", "server_error"}

StepsOutage ==
    \/ \E t \in TaskIds : BotHandleNewMessage(t)
    \/ \E t \in TaskIds, o \in Transient : BotGotUser(t, o)
    \/ \E t \in TaskIds, o \in Transient : BotGotChat(t, o)
    \/ \E t \in TaskIds, o \in Transient, s \in FloodSeconds : BotSendDone(t, o, s)
    \/ \E t \in TaskIds : BotWake(t)
    \/ SleepElapses

\* The messages delivered during the outage: one from a user, which matches
\* both groups, and one from a chat without username
OutageMessages == {m \in Messages : m.chat_id \in {101, 102}}

\* The handlers of the outage run one after the other: an event is delivered
\* when the handler of the one before has ended
DeliverWhenIdle(t, m) ==
    /\ \A u \in TaskIds : tasks[u].pc = "idle"
    /\ Deliver(t, m)

NextOutage ==
    \/ \E t \in TaskIds, m \in OutageMessages : DeliverWhenIdle(t, m)
    \/ StepsOutage

SpecOutage == InitBot /\ [][NextOutage]_vars

\* ------------------------------------------------------ keyword tables
IsSpace(c) == c = " "

RECURSIVE LStrip(_)
LStrip(s) == IF s # << >> /\ IsSpace(Head(s)) THEN LStrip(Tail(s)) ELSE s

RECURSIVE RStrip(_)
RStrip(s) ==
    IF s # << >> /\ IsSpace(s[Len(s)]) THEN RStrip(SubSeq(s, 1, Len(s) - 1)) ELSE s

\* str.strip()
Strip(s) == RStrip(LStrip(s))

\* str.find(c) + 1: where c first is in s, from position i on; 0 if nowhere
RECURSIVE Find(_, _, _)
Find(s, c, i) ==
    IF i > Len(s) THEN 0 ELSE IF s[i] = c THEN i ELSE Find(s, c, i + 1)

\* line.split(sep, 1) of a line that contains sep
SplitOnce(line, sep) ==
    LET p == Find(line, sep, 1)
    IN  <<SubSeq(line, 1, p - 1), SubSeq(line, p + 1, Len(line))>>

SeparatorsReversed == <<",", ":", "|">>

\* The separators, in the order load_keywords tries them
Separators == <<"|", ":", ",">>

\* The for-else over the separators: (kw, alias) of a line, trying the
\* separators from the j-th on
RECURSIVE ParseLine(_, _)
ParseLine(line, j) ==
    IF j > Len(Separators)
    THEN <<line, line>>
    ELSE IF Find(line, Separators[j], 1) # 0
         THEN LET parts == SplitOnce(line, Separators[j])
              IN  <<Strip(parts[1]), Strip(parts[2])>>
         ELSE ParseLine(line, j + 1)

\* mapping[key] = alias on a dict kept in insertion order: the value of a key
\* that is there is replaced where it is, a new key goes last
DictSet(mapping, key, alias) ==
    IF \E i \in 1..Len(mapping) : mapping[i].kw = key
    THEN [i \in 1..Len(mapping) |->
             IF mapping[i].kw = key THEN [kw |-> key, alias |-> alias] ELSE mapping[i]]
    ELSE Append(mapping, [kw |-> key, alias |-> alias])

\* The loop of load_keywords over the lines of the file, from the i-th on
RECURSIVE LoadLines(_, _, _)
LoadLines(lines, i, mapping) ==
    IF i > Len(lines)
    THEN mapping
    ELSE LET line == Strip(lines[i])
         IN  IF line = << >> \/ Head(line) = "#"
             THEN LoadLines(lines, i + 1, mapping)
             ELSE LET e == ParseLine(line, 1)
                  IN  LoadLines(lines, i + 1, DictSet(mapping, Lower(e[1]), e[2]))

\* load_keywords of main.py, on the file at the path: whether it exists, and
\* its lines
load_keywords(file) == IF ~file.exists THEN << >> ELSE LoadLines(file.lines, 1, << >>)

\* The characters of the lines of a keywords file
LineChars == {"a", "B", "|", ":", ",", " ", "#"}

RECURSIVE Texts(_, _)
Texts(chars, n) ==
    IF n = 0 THEN {<< >>}
    ELSE LET shorter == Texts(chars, n - 1)
         IN  shorter \cup {Append(s, c) : s \in {x \in shorter : Len(x) = n - 1}, c \in chars}

Lines == Texts(LineChars, MaxLineLen)

\* The lines that may follow the first line of the file
SecondLines == {<<"a">>, <<"A", ":", "a">>, <<"#", "a">>, << >>, <<"B", "|", "a">>}

KeywordFiles ==
    {[exists |-> FALSE, lines |-> << >>], [exists |-> TRUE, lines |-> << >>]}
    \cup {[exists |-> TRUE, lines |-> <<l>>] : l \in Lines}
    \cup {[exists |-> TRUE, lines |-> <<l, m>>] : l \in Lines, m \in SecondLines}

InitLoad ==
    /\ PipelineInit
    /\ program = "main"
    /\ call \in [fn : {"load_keywords"}, file : KeywordFiles]
    /\ result = NoResult
    /\ sink = NoSink

LoadKeywords ==
    /\ call.fn = "load_keywords"
    /\ ~result.done
    /\ result' = [done |-> TRUE, value |-> load_keywords(call.file)]
    /\ UNCHANGED <<call, sink, pipeline>>

NextLoad == LoadKeywords

SpecLoad == InitLoad /\ [][NextLoad]_vars

\* ------------------------------------------------------- keyword match
\* [line.strip().lower() for line in file] of bot.py and main_comm_v2.py
load_words(lines) == [i \in 1..Len(lines) |-> Lower(Strip(lines[i]))]

\* The keyword, the alias, the keywords file and the texts of the examples
Wallet1 == <<"w", "a", "l", "l", "e", "t", "1">>

AliasA == <<"A", "l", "i", "a", "s", " ", "A">>

WalletFile == [exists |-> TRUE, lines |-> << <<"w", "a", "l", "l", "e", "t", "1", "|", "A", "l", "i", "a", "s", " ", "A">> >>]

Please ==
    <<"p", "l", "e", "a", "s", "e", " ", "s", "e", "n", "d", " ", "t", "o", " ", "w", "a", "l", "l", "e", "t", "1", " ", "n", "o", "w">>

MyWallet == <<"m", "y", "w", "a", "l", "l", "e", "t", "1", "2", "3">>

SendUpper == <<"S", "e", "n", "d", " ", "t", "o", " ", "W", "A", "L", "L", "E", "T", "1", ".">>

\* The keywords files of main.py a text is matched against
TableFiles ==
    {[exists |-> TRUE, lines |-> ls] : ls \in
        { << >>,
          << <<"a">> >>,
          << <<"a", " ", "B">> >>,
          << <<"B", "|", "a">> >>,
          << <<"|", "B">> >>,
          << <<":">> >>,
          << <<"a", "a", "|", "1">>, <<"a", ":", "2">> >>,
          << <<"B", ",", "1">>, <<"a", "|", "2">>, <<"b", "|", "3">> >>,
          WalletFile.lines }}

\* The keywords files and the excluded-words files of bot.py and
\* main_comm_v2.py, by their lines
KeywordLines ==
    { << <<"a">> >>, << <<"B">>, <<"a", "b">> >>, << <<"a", " ", "b">> >>,
      << <<"x">>, << >> >>, << << >> >>, <<Wallet1>> }

ExcludedLines == { << >>, << <<"x">> >>, << <<"X", " ">>, <<"b">> >>, << << >> >> }

TextChars == {"a", "B", "x", " "}

\* The texts of the messages: every text of at most MaxTextLen characters,
\* and three longer ones
MatchTexts ==
    Texts(TextChars, MaxTextLen)
    \cup {Please, MyWallet, SendUpper}

FindCalls == [fn : {"find_keyword"}, file : TableFiles, text : MatchTexts]

LoopCalls == [fn : {"keyword_loop"}, keywords : KeywordLines,
              excluded : ExcludedLines, text : MatchTexts]

InitMatch ==
    /\ call \in FindCalls \cup LoopCalls
    /\ PipelineInit
    /\ program = IF call.fn = "find_keyword" THEN "main" ELSE "v2"
    /\ result = NoResult
    /\ sink = NoSink

\* main.py, line 181, on the table GroupData.__init__ loaded
FindKeyword ==
    /\ call.fn = "find_keyword"
    /\ ~result.done
    /\ result' = [done |-> TRUE,
                  value |-> find_keyword(call.text, load_keywords(call.file))]
    /\ UNCHANGED <<call, sink, pipeline>>

\* The keyword loop of bot.py and main_comm_v2.py on the lists loaded at import
KeywordLoopRuns ==
    /\ call.fn = "keyword_loop"
    /\ ~result.done
    /\ result' = [done |-> TRUE,
                  value |-> KeywordLoop(call.text, load_words(call.keywords),
                                        load_words(call.excluded))]
    /\ UNCHANGED <<call, sink, pipeline>>

NextMatch == FindKeyword \/ KeywordLoopRuns

SpecMatch == InitMatch /\ [][NextMatch]_vars

\* ------------------------------------------------------- message links
\* Python's integers have no width; a chat id of thirteen digits is kept as a
\* sign and two limbs, the number being (hi * Limb + lo), negated when neg.
Limb == 1000000

PyInt(neg, hi, lo) == [neg |-> neg, hi |-> hi, lo |-> lo]

\* abs(n)
Abs(n) == [n EXCEPT !.neg = FALSE]

MagLess(a, b) == a.hi < b.hi \/ (a.hi = b.hi /\ a.lo < b.lo)

MagAdd(a, b) ==
    IF a.lo + b.lo >= Limb
    THEN [hi |-> a.hi + b.hi + 1, lo |-> a.lo + b.lo - Limb]
    ELSE [hi |-> a.hi + b.hi, lo |-> a.lo + b.lo]

\* the magnitude of a - b when the magnitude of a is not the smaller one
MagSub(a, b) ==
    IF a.lo >= b.lo
    THEN [hi |-> a.hi - b.hi, lo |-> a.lo - b.lo]
    ELSE [hi |-> a.hi - b.hi - 1, lo |-> a.lo + Limb - b.lo]

\* a - b
Sub(a, b) ==
    IF a.neg # b.neg
    THEN LET m == MagAdd(a, b) IN PyInt(a.neg, m.hi, m.lo)
    ELSE IF MagLess(a, b)
         THEN LET m == MagSub(b, a) IN PyInt(~a.neg, m.hi, m.lo)
         ELSE LET m == MagSub(a, b)
              IN  PyInt(a.neg /\ (m.hi # 0 \/ m.lo # 0), m.hi, m.lo)

\* 10 ** 12
TenToTwelve == PyInt(FALSE, 1000000, 0)

\* The "—" tg_link returns for a chat that has no link
Dash == <<"-">>

\* f"https://t.me/{username}/{msg_id}": the URL by its parts
PublicUrl(username, msg_id) == <<"https://t.me", username, msg_id>>

\* f"https://t.me/c/{internal}/{msg_id}"
PrivateUrl(internal, msg_id) == <<"https://t.me", "c", internal, msg_id>>

TgLinkNoAbs(chat, msg_id) ==
    IF chat.username # << >>
    THEN PublicUrl(chat.username, msg_id)
    ELSE IF chat.kind = "Channel"
         THEN PrivateUrl(Sub(chat.id, TenToTwelve), msg_id)
         ELSE Dash

\* tg_link, as the string it returns
TgLinkText(chat, msg_id) ==
    IF chat.username # << >>
    THEN PublicUrl(chat.username, msg_id)
    ELSE IF chat.kind = "Channel"
         THEN PrivateUrl(Sub(Abs(chat.id), TenToTwelve), msg_id)
         ELSE Dash

\* create_message_link of main_comm_v2.py
create_message_link(chat, message_id) ==
    IF chat.username # << >>
    THEN PublicUrl(chat.username, message_id)
    ELSE PrivateUrl(Sub(chat.id, TenToTwelve), message_id)

\* The chats a link is asked for: with a handle or without, of the three
\* entity types, with the id of a supergroup in its marked form
\* (-1001234567890), the same id bare, and the id of a small group
ChatIds == {PyInt(TRUE, 1001234, 567890), PyInt(FALSE, 1234, 567890),
            PyInt(TRUE, 815, 314476)}

Chats == [username : {<< >>, <<"h">>}, kind : {"Channel", "Chat", "User"},
          id : ChatIds]

MsgIds == {1, 42}

LinkCalls == [fn : {"tg_link", "create_message_link"}, chat : Chats, msg_id : MsgIds]

InitLink ==
    /\ call \in LinkCalls
    /\ PipelineInit
    /\ program = IF call.fn = "tg_link" THEN "main" ELSE "v2"
    /\ result = NoResult
    /\ sink = NoSink

TgLink ==
    /\ call.fn = "tg_link"
    /\ ~result.done
    /\ result' = [done |-> TRUE, value |-> TgLinkText(call.chat, call.msg_id)]
    /\ UNCHANGED <<call, sink, pipeline>>

CreateMessageLink ==
    /\ call.fn = "create_message_link"
    /\ ~result.done
    /\ result' = [done |-> TRUE, value |-> create_message_link(call.chat, call.msg_id)]
    /\ UNCHANGED <<call, sink, pipeline>>

NextLink == TgLink \/ CreateMessageLink

SpecLink == InitLink /\ [][NextLink]_vars

\* ------------------------------------------------------- the csv file
\* sink.file is what the csv file holds on disk, sink.buffer what has been
\* written to the file object and not flushed, sink.records the rows appended
\* so far, by every process; one process has the file open at a time.
Header == <<"datetime_utc", "chat_id", "message_id", "text">>

\* [datetime_utc, chat.id, msg.id, text] of a message, by its key
Row(key) == <<"row", key>>

\* GroupData.__init__: the file is opened for appending, and the header row is
\* written to the file object when the file on disk is empty.  Nothing is
\* flushed here.
SinkOpen ==
    /\ ~sink.open
    /\ sink.starts < MaxStarts
    /\ sink' = [sink EXCEPT !.open = TRUE,
                            !.starts = @ + 1,
                            !.buffer = IF Len(sink.file) = 0 THEN <<Header>> ELSE << >>]
    /\ UNCHANGED <<call, result, pipeline>>

\* on_new_message, lines 207-217: writerow, then flush
SinkAppend(key) ==
    /\ sink.open
    /\ Len(sink.records) < MaxRecords
    /\ sink' = [sink EXCEPT !.file = sink.file \o sink.buffer \o <<Row(key)>>,
                            !.buffer = << >>,
                            !.records = Append(@, Row(key))]
    /\ UNCHANGED <<call, result, pipeline>>

\* The process ends in an orderly way: the interpreter closes the file object,
\* which flushes it
SinkClose ==
    /\ sink.open
    /\ sink' = [sink EXCEPT !.file = sink.file \o sink.buffer,
                            !.buffer = << >>,
                            !.open = FALSE]
    /\ UNCHANGED <<call, result, pipeline>>

\* The process is killed: what the file object buffered is lost
SinkKill ==
    /\ sink.open
    /\ sink' = [sink EXCEPT !.buffer = << >>, !.open = FALSE]
    /\ UNCHANGED <<call, result, pipeline>>

InitSink ==
    /\ PipelineInit
    /\ program = "main"
    /\ call = NoCall
    /\ result = NoResult
    /\ sink = NoSink

NextSink ==
    \/ SinkOpen
    \/ \E k \in Keys : SinkAppend(k)
    \/ SinkClose
    \/ SinkKill

SpecSink == InitSink /\ [][NextSink]_vars

\* ------------------------------------------------------------------ claims
AllIdle == \A t \in TaskIds : tasks[t].pc = "idle"

\* The TTL and the cache of the duplicate guard of the script that runs
TTL == IF program = "main" THEN PROCESSED_TTL ELSE MESSAGE_EXPIRY_TIME

GuardCache == IF program = "main" THEN dup_cache ELSE processed_messages

TargetOf(g) == keyword_groups[g].target_chat_id

\* C1: the duplicate guard reports a key new exactly once within a TTL window:
\* the first observation of a key is new, and an observation reported new
\* when the key was reported new before comes at least TTL after that report
\* (so every observation made less than TTL after it is a duplicate).
C1_NewOncePerWindow ==
    /\ (observed.result # "none" /\ observed.prev = NoTime) => observed.result = "new"
    /\ (observed.result = "new" /\ observed.prev # NoTime)
           => observed.at - observed.prev >= TTL

\* C1 witness: a key is observed again, later and inside its window, and is
\* reported a duplicate
C1_Witness ==
    /\ observed.result = "dup"
    /\ observed.prev # NoTime
    /\ observed.at > observed.prev
    /\ observed.at - observed.prev < TTL

\* C2: the keywords of a group are scanned at most once for a message,
\* whatever is delivered again and whatever the handler retries.
C2_EvaluatedAtMostOnce == \A p \in Pairs : evals[p] <= 1

\* C3: send_message succeeds at most once for a message and a group.
C3_SentAtMostOnce == \A p \in Pairs : sends[p].ok <= 1

\* C4: an observation of a key whose stored timestamp is older than the TTL
\* is reported new.
C4_ExpiredNeverBlocks ==
    (observed.stored # NoTime /\ observed.at - observed.stored > TTL)
        => observed.result = "new"

\* C5: a message from the target chat of a group is never scanned against
\* that group's keywords nor notified to it, outgoing or not.
C5_NoSelfLoop ==
    \A p \in Pairs :
        p[1][1] = TargetOf(p[2]) => (evals[p] = 0 /\ sends[p].tries = 0)

C7_AlwaysAudited ==
    AllIdle =>
        \A p \in Pairs :
            sends[p].tries > 0 =>
                /\ sends[p].ok > 0 \/ \E what \in {"forbidden", "exception", "flood",
                                                    "raised", "max_retries"} :
                                          <<p[1], p[2], what>> \in log
                /\ \E i \in 1..Len(csv_rows) : csv_rows[i] = <<p[2], p[1]>>

\* C8: whatever send_message answers for one group, the groups after it are
\* still scanned for the same message.
C8_LaterGroupsEvaluated ==
    AllIdle =>
        \A k \in Keys : \A i, j \in GroupIds :
            (i < j /\ sends[<<k, i>>].tries > 0 /\ k[1] # TargetOf(j))
                => evals[<<k, j>>] > 0

\* C9: a message that passed the duplicate guard (and comes from no target
\* chat) is scanned against the keywords of every configured group.
C9_EveryGroupMatched ==
    AllIdle =>
        \A k \in Keys :
            (lastNew[k] # NoTime /\ \A g \in GroupIds : k[1] # TargetOf(g))
                => \A g \in GroupIds : evals[<<k, g>>] > 0

\* C10: after every call of the duplicate guard its cache holds only keys
\* first seen less than TTL before the call.
C10_CacheHoldsOnlyFresh ==
    observed.result # "none" =>
        \A k \in Keys :
            GuardCache[k] # NoTime => observed.at - GuardCache[k] < TTL

\* C21: a duplicate leaves the stored first-seen timestamp of its key as it
\* was, so that the timestamp a key has in the cache is the time it was last
\* reported new; and the window being anchored there, an observation made
\* when TTL or more has gone by since that time is not a duplicate.
C21_AnchoredAtFirstSeen ==
    /\ \A k \in Keys : GuardCache[k] # NoTime => GuardCache[k] = lastNew[k]
    /\ observed.result = "new" => GuardCache[observed.key] = observed.at
    /\ observed.result = "dup" =>
         /\ observed.stored # NoTime
         /\ GuardCache[observed.key] = observed.stored
         /\ observed.at - observed.stored < TTL

\* The rows the csv file of group g has for the message of key k
RowsOf(g, k) == {i \in 1..Len(csv_rows) : csv_rows[i] = <<g, k>>}

\* The handlers of main.py that wait for the answer of the send for group g
\* with the message of key k: past the duplicate guard and the self-loop
\* check, before the csv row
Sending(g, k) ==
    {t \in TaskIds : tasks[t].pc = "send" /\ tasks[t].gi = g /\ KeyOf(tasks[t].msg) = k}

\* The messages that passed the duplicate guard and the self-loop check of
\* main.py at least once
AcceptedKeys == {k \in Keys : \E g \in GroupIds : evals[<<k, g>>] > 0}

\* C22 as the spec states it: in main.py, once the handlers are done, the csv
\* file has as many data rows as there are distinct accepted messages.
C22_RowsAreDistinctMessages ==
    (program = "main" /\ AllIdle) => Len(csv_rows) = Cardinality(AcceptedKeys)

\* C22, amended: in main.py every time a message passes the duplicate guard
\* and the self-loop check one row is appended for it, matched or not, sent
\* or not, and no row is appended otherwise: the rows of a message and the
\* handlers still waiting for its send are as many as the times it passed, a
\* message delivered again after its TTL passing again.
C22_OneRowPerAcceptance ==
    program = "main" =>
        /\ \A k \in Keys, g \in GroupIds :
               Cardinality(RowsOf(g, k)) + Cardinality(Sending(g, k)) = evals[<<k, g>>]
        /\ \A i \in 1..Len(csv_rows) : csv_rows[i] \in GroupIds \X Keys

\* The handlers are done; one message matched no keyword and has its row, and
\* one matched, its send failed, and it has its row
C22_Witness ==
    /\ program = "main"
    /\ AllIdle
    /\ \E k \in Keys, g \in GroupIds :
          /\ sends[<<k, g>>].tries = 0
          /\ evals[<<k, g>>] = 1
          /\ Cardinality(RowsOf(g, k)) = 1
    /\ \E k \in Keys, g \in GroupIds :
          /\ sends[<<k, g>>].tries > 0
          /\ sends[<<k, g>>].ok = 0
          /\ Cardinality(RowsOf(g, k)) = 1

\* C11: once the sink has been opened and the process has stopped, however it
\* stopped, the csv file holds one header row followed by the rows appended,
\* in order, and nothing else.
C11_OneHeaderThenRows ==
    (sink.starts > 0 /\ ~sink.open) => sink.file = <<Header>> \o sink.records

\* The handlers that are past the duplicate guard with the message of key k
PastGuard(k) ==
    {t \in TaskIds : KeyOf(tasks[t].msg) = k /\ tasks[t].pc \in {"send", "get_entity"}}

\* The handlers that have the message of key k and have not reached the guard
BeforeGuard(k) ==
    {t \in TaskIds : KeyOf(tasks[t].msg) = k /\ tasks[t].pc \in {"get_chat", "start"}}

\* C16: of the handlers that run for the same (chat_id, message_id) and
\* interleave at their awaits, one passes the duplicate guard and no other:
\* while no TTL has gone by, at most one of them is past the guard, each group
\* has scanned the message at most once, and every handler that met the guard
\* after the first was answered duplicate.
C16_FirstWins ==
    now < TTL =>
        \A k \in Keys :
            /\ Cardinality(PastGuard(k)) <= 1
            /\ \A g \in GroupIds : evals[<<k, g>>] <= 1
            /\ PastGuard(k) # {} => GuardCache[k] # NoTime
            /\ (observed.key = k /\ observed.result = "new") => observed.prev = NoTime
            /\ (observed.key = k /\ observed.result = "dup") => lastNew[k] # NoTime

\* Two handlers had the same message in flight; the second was answered
\* duplicate while the first was still waiting for its send
C16_Witness ==
    /\ now = 0
    /\ nevents = 2
    /\ \E k \in Keys :
          /\ observed.key = k
          /\ observed.result = "dup"
          /\ \E t \in PastGuard(k) : tasks[t].pc = "send"
          /\ BeforeGuard(k) = {}

\* The handler in slot t is suspended in the sleep that follows a
\* FloodWaitError, or in send_message
Waiting(t) ==
    \/ tasks[t].pc = "flood_sleep" /\ tasks[t].wake > 0
    \/ tasks[t].pc = "send"

C18_AlertComplete ==
    \A t \in TaskIds :
        tasks[t].pc = "send" =>
            LET note == tasks[t].notification
            IN  /\ note # NoNote
                /\ note.kw # None
                /\ note.key = KeyOf(tasks[t].msg)
                /\ note.link \in {"public", "private", "dash"}
                /\ note.link = "private" => tasks[t].msg.chat_kind = "channel"

\* What holds of bot.py's retry loop at every moment
C15_Bounded ==
    \A t \in TaskIds :
        /\ tasks[t].retries <= MAX_RETRIES
        /\ tasks[t].pc \notin {"idle", "retry_sleep"} => tasks[t].retries < MAX_RETRIES
        /\ tasks[t].pc = "retry_sleep" =>
             /\ tasks[t].secs = RETRY_DELAY
             /\ tasks[t].wake <= RETRY_DELAY
             /\ tasks[t].retries >= 1
        /\ \A k \in Keys, g \in GroupIds :
             /\ <<k, g, "max_retries">> \in log => faults >= MAX_RETRIES
             /\ <<k, g, "raised">> \in log =>
                  \E m \in Messages : KeyOf(m) = k /\ m.sender # "user" /\ ~m.username

\* How far the handler of bot.py is from its end: the passes its retry loop
\* has left, then the groups the pass has left, then the awaits left for the
\* group at hand, then the seconds left of a sleep
Rank(task) ==
    LET passes == (MAX_RETRIES - task.retries) * 1000
        groups == (Len(keyword_groups) - task.gi) * 50
    IN  CASE task.pc = "idle" -> 0
          [] task.pc = "retry_sleep" -> passes + 500 + task.wake
          [] task.pc = "start" -> passes + 400
          [] task.pc = "get_user" -> passes + groups + 40
          [] task.pc = "get_chat_entity" -> passes + groups + 30
          [] task.pc = "send" -> passes + groups + 20
          [] OTHER -> passes + groups + task.wake

\* Every step of a running handler brings it nearer to its end
C15_Nearer ==
    \A t \in TaskIds :
        (tasks[t].pc # "idle" /\ tasks'[t] # tasks[t]) => Rank(tasks'[t]) < Rank(tasks[t])

\* C15: when the provider keeps answering ServerError 'No workers running',
\* the handler of bot.py makes at most MAX_RETRIES passes, each failed pass
\* followed by a sleep of RETRY_DELAY, and gives up with an error in the log
\* only after MAX_RETRIES failures; the transient error never leaves the
\* handler as an exception; and every handler ends: while a handler runs the
\* event loop has a step to take, and every step of a handler brings it nearer
\* to its end.
C15_BoundedRetry ==
    /\ []C15_Bounded
    /\ [](~AllIdle => ENABLED StepsOutage)
    /\ [][C15_Nearer]_vars

\* A handler has given up after MAX_RETRIES failed passes
C15_Witness ==
    /\ \E k \in Keys, g \in GroupIds : <<k, g, "max_retries">> \in log
    /\ faults = MAX_RETRIES
    /\ AllIdle

\* Whether the call at hand found a keyword
Matched ==
    IF call.fn = "find_keyword" THEN Truthy(result.value) ELSE result.value # 0

\* C13: a text that is empty or has only whitespace matches no keyword,
\* whatever the keywords file holds.
C13_BlankNeverMatches ==
    (result.done /\ call.fn \in {"find_keyword", "keyword_loop"}
       /\ Strip(call.text) = << >>) => ~Matched

\* key is a piece of the text, letter case of the text aside
InText(key, text) ==
    \E a \in 0..Len(text) :
        \A j \in 1..Len(key) : a + j <= Len(text) /\ LowerChar(text[a + j]) = key[j]

\* C14: find_keyword returns None iff no key of the table is in the
\* lower-cased text, and otherwise the alias of the first such key in
\* insertion order.  With the table {"wallet1": "Alias A"} the text "please
\* send to wallet1 now" gives "Alias A"; the text "mywallet123" gives "Alias A"
\* too (substring mode), and does not match the keyword wallet1 in the
\* whole-word mode of bot.py and main_comm_v2.py, where "please send to
\* wallet1 now" does.
C14_KeywordMatch ==
    result.done =>
        /\ call.fn = "find_keyword" =>
             LET table == load_keywords(call.file)
                 found == {i \in DOMAIN table : InText(table[i].kw, call.text)}
             IN  /\ (result.value = None) <=> (found = {})
                 /\ found # {} =>
                      \E i \in found : /\ \A j \in found : i <= j
                                       /\ result.value = table[i].alias
                 /\ call.file = WalletFile =>
                      /\ call.text = Please => result.value = AliasA
                      /\ call.text = MyWallet => result.value = AliasA
                      /\ call.text = SendUpper => result.value = AliasA
        /\ (call.fn = "keyword_loop" /\ call.keywords = <<Wallet1>>
              /\ call.excluded = << >>) =>
             /\ call.text = Please => result.value = 1
             /\ call.text = MyWallet => result.value = 0
             /\ call.text = SendUpper => result.value = 1

\* "mywallet123" has been looked up in the table {"wallet1": "Alias A"}
C14_Witness ==
    /\ result.done
    /\ call.fn = "find_keyword"
    /\ call.file = WalletFile
    /\ call.text = MyWallet
    /\ result.value = AliasA

\* keyword stands in the text as a whole word, letter case aside: a keyword that
\* begins and ends with a word character is somewhere in the text with no word
\* character next to it on either side; the empty keyword of a blank line is a
\* whole word of any text that has a word character
WholeWord(keyword, text) ==
    IF keyword = << >>
    THEN \E p \in 1..Len(text) : IsWord(text[p])
    ELSE \E a \in 0..(Len(text) - Len(keyword)) :
            /\ \A j \in 1..Len(keyword) : LowerChar(text[a + j]) = keyword[j]
            /\ a > 0 => ~IsWord(text[a])
            /\ a + Len(keyword) < Len(text) => ~IsWord(text[a + Len(keyword) + 1])

Segments(s) == {SubSeq(s, a, b) : a \in 1..(Len(s) + 1), b \in 0..Len(s)}

\* x is s without the spaces at its two ends
Stripped(s, x) ==
    \E a \in 1..(Len(s) + 1), b \in 0..Len(s) :
        /\ x = SubSeq(s, a, b)
        /\ \A i \in 1..Len(s) : (i < a \/ i > b) => s[i] = " "
        /\ x # << >> => (x[1] # " " /\ x[Len(x)] # " ")

\* The lines of the file that are neither empty nor comments, stripped
Kept(lines) ==
    {i \in 1..Len(lines) :
        \E x \in Segments(lines[i]) :
            /\ Stripped(lines[i], x) /\ x # << >> /\ x[1] # "#"}

\* The separator a line is split at: "|" if the line has one, else ":" if it
\* has one, else "," if it has one, else none
Winner(line) ==
    LET has(c) == \E p \in 1..Len(line) : line[p] = c
    IN  IF has("|") THEN "|" ELSE IF has(":") THEN ":" ELSE IF has(",") THEN "," ELSE ""

\* The i-th line of the file gives the entry kw -> alias
GivesEntry(line, kw, alias) ==
    \E x \in Segments(line) :
        /\ Stripped(line, x)
        /\ IF Winner(x) = ""
           THEN kw = Lower(x) /\ alias = x
           ELSE \E p \in 1..Len(x) :
                   /\ x[p] = Winner(x)
                   /\ \A q \in 1..(p - 1) : x[q] # Winner(x)
                   /\ \E k \in Segments(x) : Stripped(SubSeq(x, 1, p - 1), k) /\ kw = Lower(k)
                   /\ Stripped(SubSeq(x, p + 1, Len(x)), alias)

\* C19: load_keywords gives the empty table for a missing file; otherwise
\* every line that is neither empty nor a comment gives one entry: the line
\* is split once, at the first "|" if it has one, else at the first ":", else
\* at the first ",", both parts stripped, and stands for itself if it has no
\* separator; the key is lower-cased and the alias keeps its case.  The table
\* has these entries and no other, a later line replacing the alias of an
\* earlier line with the same key.
C19_LoadKeywords ==
    (result.done /\ call.fn = "load_keywords") =>
        LET lines == call.file.lines
            table == result.value
        IN  /\ ~call.file.exists => table = << >>
            /\ \A i \in DOMAIN table : /\ table[i].kw = Lower(table[i].kw)
                                       /\ \A j \in DOMAIN table :
                                              table[j].kw = table[i].kw => i = j
            /\ \A e \in DOMAIN table : \E i \in Kept(lines) :
                   GivesEntry(lines[i], table[e].kw, table[e].alias)
            /\ \A i \in Kept(lines) : \E e \in DOMAIN table :
                   /\ \E a \in Segments(lines[i]) : GivesEntry(lines[i], table[e].kw, a)
                   /\ (\A j \in Kept(lines) : j > i =>
                          ~\E a \in Segments(lines[j]) : GivesEntry(lines[j], table[e].kw, a))
                        => GivesEntry(lines[i], table[e].kw, table[e].alias)

\* A line that has a ":" before its "|" has been parsed, and its alias has an
\* upper-case letter
C19_Witness ==
    /\ result.done
    /\ call.fn = "load_keywords"
    /\ call.file.lines = << <<":", "|", "B">> >>
    /\ result.value = << [kw |-> <<":">>, alias |-> <<"B">>] >>

\* The links of the private and of the public form
IsPrivate(url) == Len(url) = 4

IsPublic(url) == Len(url) = 3

Supergroup == PyInt(TRUE, 1001234, 567890)

====
